---- MODULE Spec2Model ----
(***************************************************************************)
(* Model of the tokenizer training driver, vid_wm/ivideogpt/               *)
(* train_tokenizer.py: checkpoint naming and resumption, and the training  *)
(* loop of main() with its gradient accumulation, its alternation of       *)
(* generator and discriminator turns, its checkpointing and its stop test. *)
(* One process is modelled (accelerator.is_main_process is TRUE).          *)
(* Strings are sequences of one-character strings.                         *)
(***************************************************************************)
EXTENDS Integers, Sequences, FiniteSets, TLC

(***************************************************************************)
(* Bounds of the model.                                                    *)
(***************************************************************************)
MaxEpochs == 2
MaxTrainSteps == 4
MaxAccum == 2
MaxLen == 4
MaxCkptSteps == 2
MaxStart == 1
MaxDiscStart == 2
MaxSavedStep == 11
MaxValSteps == 3

(***************************************************************************)
(* parse_args: the default of --disc_start (1000005) lies this far above   *)
(* the default of --max_train_steps (1000000).                             *)
(***************************************************************************)
DiscStartExcess == 5

(***************************************************************************)
(* Python string helpers.                                                  *)
(***************************************************************************)
Digits == <<"0", "1", "2", "3", "4", "5", "6", "7", "8", "9">>

DigitValue(c) == (CHOOSE k \in 1..10 : Digits[k] = c) - 1

IsDigit(c) == \E k \in 1..10 : Digits[k] = c

RECURSIVE StrNat(_)
StrNat(n) == IF n < 10 THEN <<Digits[n + 1]>>
             ELSE StrNat(n \div 10) \o <<Digits[(n % 10) + 1]>>

\* str(n) of an int, as an f-string formats it
Str(n) == IF n < 0 THEN <<"-">> \o StrNat(0 - n) ELSE StrNat(n)

StartsWith(s, p) == Len(s) >= Len(p) /\ SubSeq(s, 1, Len(p)) = p

\* s.find(sep): 0 when sep does not occur, else the first (1-based) position
Find(s, sep) ==
    LET hits == {k \in 1..(Len(s) - Len(sep) + 1) : SubSeq(s, k, k + Len(sep) - 1) = sep}
    IN IF hits = {} THEN 0 ELSE CHOOSE k \in hits : \A m \in hits : k <= m

\* s.split(sep): the list of the pieces between the occurrences of sep
RECURSIVE Split(_, _)
Split(s, sep) ==
    LET k == Find(s, sep)
    IN IF k = 0 THEN <<s>>
       ELSE <<SubSeq(s, 1, k - 1)>> \o Split(SubSeq(s, k + Len(sep), Len(s)), sep)

RECURSIVE NatOfDigits(_)
NatOfDigits(s) == IF s = <<>> THEN 0
                  ELSE NatOfDigits(SubSeq(s, 1, Len(s) - 1)) * 10 + DigitValue(s[Len(s)])

\* int(s): an optional sign and at least one digit, anything else is a ValueError
PyInt(s) ==
    LET signed == s # <<>> /\ s[1] \in {"-", "+"}
        body == IF signed THEN Tail(s) ELSE s
    IN IF body # <<>> /\ \A k \in 1..Len(body) : IsDigit(body[k])
       THEN [ok |-> TRUE, val |-> IF signed /\ s[1] = "-" THEN 0 - NatOfDigits(body)
                                  ELSE NatOfDigits(body)]
       ELSE [ok |-> FALSE, val |-> 0]

\* os.path.basename(p): what follows the last "/"
Basename(p) ==
    LET slashes == {k \in 1..Len(p) : p[k] = "/"}
    IN IF slashes = {} THEN p
       ELSE SubSeq(p, (CHOOSE k \in slashes : \A m \in slashes : m <= k) + 1, Len(p))

\* os.path.join(a, b) of two strings
PathJoin(a, b) ==
    IF b # <<>> /\ b[1] = "/" THEN b
    ELSE IF a = <<>> \/ a[Len(a)] = "/" THEN a \o b
    ELSE a \o <<"/">> \o b


(***************************************************************************)
(* Names used by the program.                                              *)
(***************************************************************************)
CHECKPOINT == <<"c", "h", "e", "c", "k", "p", "o", "i", "n", "t">>

TOKENIZER == <<"t", "o", "k", "e", "n", "i", "z", "e", "r">>

LATEST == <<"l", "a", "t", "e", "s", "t">>

\* entries main() itself creates in args.output_dir before the training starts
LOGS == <<"l", "o", "g", "s">>

CMD_SH == <<"c", "m", "d", ".", "s", "h">>

\* args.output_dir of this run, and output directories of earlier runs (the
\* second one of a run started with --exp_name tokenizer)
OutputDir == <<"o", "u", "t">>

EarlierRunDirs == {<<"r", "u", "n">>, <<"r", "-">> \o TOKENIZER}

\* a directory of args.output_dir that save_checkpoint did not write
PlainCheckpoint == CHECKPOINT \o <<"-">> \o Str(7)

VARIABLES
    args,             \* the parsed command line
    train_dataloader, \* number of batches of one pass over the training dataloader
    pc,               \* "resume", "train", "done" or "raised"
    error,            \* the exception that ended the run, or "none"
    global_step,
    epoch,
    i,                \* index of the next batch in the current pass
    acc_step,         \* accelerator.step, the counter of accelerator.accumulate
    sync_gradients,   \* accelerator.sync_gradients
    gen_updates,      \* parameter updates applied by optimizer
    disc_updates,     \* parameter updates applied by discr_optimizer
    dirs,             \* os.listdir(args.output_dir)
    loaded,           \* the path given to accelerator.load_state, <<>> when none
    printed,          \* what the resume block printed
    first_step,       \* global_step when the training loop is entered
    hist,             \* one record per iteration of the training loop
    model,            \* the CompressiveVQModelFSQ and the context_length it is called with
    pixel_values,     \* the video batch given to tokenize
    other_values,     \* a second batch, equal to the first on the context frames
    tpc,              \* the call to make ("tokenize", "decode") or its outcome
    tokens,           \* what tokenize returned for pixel_values
    other_tokens,     \* what tokenize returned for other_values
    result,           \* what detokenize returned
    decoded           \* the inputs and the output of decode

main_vars == <<args, train_dataloader, pc, error, global_step, epoch, i, acc_step,
               sync_gradients, gen_updates, disc_updates, dirs, loaded, printed,
               first_step, hist>>

tokenizer_vars == <<model, pixel_values, other_values, tpc, tokens, other_tokens,
                    result, decoded>>

vars == <<main_vars, tokenizer_vars>>

(***************************************************************************)
(* save_checkpoint                                                         *)
(***************************************************************************)
\* the directory name save_path ends in
SaveName(step, model_name) == CHECKPOINT \o <<"-">> \o model_name \o Str(step)

\* the listing of args.output_dir after save_checkpoint(..., step, model_name)
SaveCheckpoint(listing, step, model_name) ==
    LET written == listing \cup {SaveName(step, model_name)}
        latest_checkpoint_path == CHECKPOINT \o <<"-">> \o Str(step - args.checkpointing_steps)
    IN IF args.latest_checkpoint_only THEN written \ {latest_checkpoint_path}
       ELSE written

(***************************************************************************)
(* The resume block of main()                                              *)
(***************************************************************************)
\* the sort key of the "latest" branch: int(x.split("-")[1])
LatestKey(d) ==
    LET parts == Split(d, <<"-">>)
    IN IF Len(parts) < 2 THEN [ok |-> FALSE, val |-> 0, err |-> "IndexError"]
       ELSE LET n == PyInt(parts[2])
            IN [ok |-> n.ok, val |-> n.val, err |-> IF n.ok THEN "none" ELSE "ValueError"]

\* the step read from the whole path instead of its last component
ResumedStepOfWholePath(path) ==
    LET parts == Split(path, <<"-">> \o TOKENIZER)
    IN IF Len(parts) < 2 THEN [ok |-> FALSE, val |-> 0, err |-> "IndexError"]
       ELSE LET n == PyInt(parts[2])
            IN [ok |-> n.ok, val |-> n.val, err |-> IF n.ok THEN "none" ELSE "ValueError"]

\* int(os.path.basename(path).split("-tokenizer")[1])
ResumedStep(path) ==
    LET parts == Split(Basename(path), <<"-">> \o TOKENIZER)
    IN IF Len(parts) < 2 THEN [ok |-> FALSE, val |-> 0, err |-> "IndexError"]
       ELSE LET n == PyInt(parts[2])
            IN [ok |-> n.ok, val |-> n.val, err |-> IF n.ok THEN "none" ELSE "ValueError"]

Raise(e) ==
    /\ pc' = "raised"
    /\ error' = e
    /\ UNCHANGED <<global_step, acc_step, loaded, printed, first_step>>

\* accelerator.load_state(path), then the step counter read back from the name.
\* load_state restores the accelerator's own step counter to the value saved
\* with the checkpoint; only its residue modulo the accumulation length matters.
LoadAndResume(path) ==
    LET s == ResumedStep(path)
    IN /\ loaded' = path
       /\ printed' = "resuming"
       /\ \E restored \in 0..(args.gradient_accumulation_steps - 1) : acc_step' = restored
       /\ IF s.ok
          THEN /\ global_step' = s.val
               /\ first_step' = s.val
               /\ pc' = "train"
               /\ error' = "none"
          ELSE /\ pc' = "raised"
               /\ error' = s.err
               /\ UNCHANGED <<global_step, first_step>>

ResumeFromCheckpoint ==
    /\ pc = "resume"
    /\ LET resume_from_checkpoint == args.resume_from_checkpoint
           listed == {d \in dirs : StartsWith(d, CHECKPOINT)}
           failing == {d \in listed : ~LatestKey(d).ok}
       IN IF resume_from_checkpoint = <<>>
          THEN /\ pc' = "train"
               /\ first_step' = global_step
               /\ UNCHANGED <<error, global_step, acc_step, loaded, printed>>
          ELSE IF resume_from_checkpoint # LATEST
          THEN LoadAndResume(resume_from_checkpoint)
          ELSE IF failing # {}
          THEN \E d \in failing : Raise(LatestKey(d).err)     \* sorted(dirs, key=...)
          ELSE IF listed = {}
          THEN Raise("TypeError")                           \* os.path.join(output_dir, None)
          ELSE LET last == CHOOSE d \in listed :
                               \A e \in listed : LatestKey(e).val <= LatestKey(d).val
               IN LoadAndResume(PathJoin(args.output_dir, last))
    /\ UNCHANGED <<args, train_dataloader, epoch, i, sync_gradients, gen_updates,
                   disc_updates, dirs, hist>>
    /\ UNCHANGED tokenizer_vars

(***************************************************************************)
(* The training loop of main()                                             *)
(***************************************************************************)
\* generator_step = ((i // args.gradient_accumulation_steps) % 2) == 0
GeneratorStep(idx) == ((idx \div args.gradient_accumulation_steps) % 2) = 0

\* the test made on the step counter as already advanced
DiscStartedOneEarly(step) == step + 1 >= args.disc_start

\* the comparison turned around
DiscStartedInverted(step) == step <= args.disc_start

\* global_step >= args.disc_start
DiscStarted(step) == step >= args.disc_start

\* a synchronisation forced at the end of each pass over the dataloader
SyncGradientsAtEndOfPass(n) ==
    (n % args.gradient_accumulation_steps) = 0 \/ i + 1 = train_dataloader

\* accelerator.accumulate: the counter was just advanced to n; gradients are
\* synchronised when it is a multiple of gradient_accumulation_steps (the
\* training dataloader is not prepared by the accelerator, so the end of a
\* pass does not force a synchronisation)
SyncGradients(n) == (n % args.gradient_accumulation_steps) = 0

\* global_step % args.checkpointing_steps == 0, tested on discriminator turns
CheckpointDue(step, generator_step, sync) ==
    sync /\ ~generator_step /\ (step % args.checkpointing_steps) = 0

\* global_step % args.validation_steps == 1 and (global_step > 1 or not
\* args.skip_first_val), tested on generator turns
ValidationDue(step, generator_step, sync) ==
    /\ sync
    /\ generator_step
    /\ (step % args.validation_steps) = 1
    /\ (step > 1 \/ ~args.skip_first_val)

\* global_step >= args.max_train_steps: leave the pass over the dataloader
StopTraining(step) == step >= args.max_train_steps

TrainIteration ==
    /\ pc = "train"
    /\ epoch < args.num_train_epochs
    /\ LET generator_step == GeneratorStep(i)
           started == DiscStarted(global_step)
           n == acc_step + 1
           sync == SyncGradients(n)
           \* optimizer.step() and discr_optimizer.step() of a prepared
           \* optimizer apply the update only when gradients are synchronised
           gen_applied == generator_step /\ sync
           disc_applied == ~generator_step /\ started /\ sync
           step == IF sync THEN global_step + 1 ELSE global_step
           save == CheckpointDue(step, generator_step, sync)
           leave == StopTraining(step) \/ i + 1 = train_dataloader
       IN /\ acc_step' = n
          /\ sync_gradients' = sync
          /\ gen_updates' = IF gen_applied THEN gen_updates + 1 ELSE gen_updates
          /\ disc_updates' = IF disc_applied THEN disc_updates + 1 ELSE disc_updates
          /\ global_step' = step
          /\ dirs' = IF save THEN SaveCheckpoint(dirs, step, TOKENIZER) ELSE dirs
          /\ hist' = Append(hist,
                [generator_step |-> generator_step,
                 sync |-> sync,
                 before |-> global_step,
                 after |-> step,
                 model_forward |-> generator_step \/ started,
                 disc_forward |-> started,
                 adversarial |-> generator_step /\ started,
                 gen_applied |-> gen_applied,
                 disc_applied |-> disc_applied,
                 disc_before |-> disc_updates,
                 disc_after |-> IF disc_applied THEN disc_updates + 1 ELSE disc_updates,
                 saved |-> save,
                 evaluated |-> ValidationDue(step, generator_step, sync)])
          /\ IF leave THEN epoch' = epoch + 1 /\ i' = 0
                      ELSE epoch' = epoch /\ i' = i + 1
    /\ UNCHANGED <<args, train_dataloader, pc, error, loaded, printed, first_step>>
    /\ UNCHANGED tokenizer_vars

\* after the last epoch: the final save_checkpoint and the end of main()
Finish ==
    /\ pc = "train"
    /\ epoch >= args.num_train_epochs
    /\ dirs' = SaveCheckpoint(dirs, global_step, TOKENIZER)
    /\ pc' = "done"
    /\ UNCHANGED <<args, train_dataloader, error, global_step, epoch, i, acc_step,
                   sync_gradients, gen_updates, disc_updates, loaded, printed,
                   first_step, hist>>
    /\ UNCHANGED tokenizer_vars

(***************************************************************************)
(* Command lines and directories the runs start from.                      *)
(***************************************************************************)
\* what main() has put into args.output_dir when the resume block starts
BaseListing == {LOGS, CMD_SH}

\* checkpoint directories an earlier run may have left in args.output_dir
EarlierListing == {SaveName(2, TOKENIZER), SaveName(10, TOKENIZER), PlainCheckpoint}

\* paths of directories written by save_checkpoint(..., s, 'tokenizer')
WrittenPaths(steps) ==
    {PathJoin(d, SaveName(s, TOKENIZER)) : d \in EarlierRunDirs, s \in steps}

ArgsOver(epochs, steps, accums, ckpts, starts, resumes, vals, skips) ==
    {a \in [num_train_epochs : epochs,
            max_train_steps : steps,
            gradient_accumulation_steps : accums,
            checkpointing_steps : ckpts,
            disc_start : 0..(MaxTrainSteps + DiscStartExcess),
            start_global_step : starts,
            resume_from_checkpoint : resumes,
            latest_checkpoint_only : BOOLEAN,
            validation_steps : vals,
            skip_first_val : skips,
            output_dir : {OutputDir}] :
        \/ a.disc_start <= MaxDiscStart
        \/ a.disc_start = a.max_train_steps + DiscStartExcess}

StartOfMain ==
    /\ pc = "resume"
    /\ error = "none"
    /\ global_step = args.start_global_step
    /\ first_step = args.start_global_step
    /\ epoch = 0
    /\ i = 0
    /\ acc_step = 0
    /\ sync_gradients = TRUE
    /\ gen_updates = 0
    /\ disc_updates = 0
    /\ loaded = <<>>
    /\ printed = "none"
    /\ hist = <<>>

\* runs that vary the training loop
InitTraining ==
    /\ args \in ArgsOver(1..MaxEpochs, 1..MaxTrainSteps, 1..MaxAccum, 1..MaxCkptSteps,
                         0..MaxStart, {<<>>, LATEST} \cup WrittenPaths({2}), {2}, {FALSE})
    /\ train_dataloader \in 1..MaxLen
    /\ dirs = BaseListing

\* runs that vary the resume block
InitResume ==
    /\ args \in ArgsOver({1}, {1}, {1}, {1}, 0..MaxStart,
                         {<<>>, LATEST} \cup WrittenPaths(0..MaxSavedStep), {2}, {FALSE})
    /\ train_dataloader = 1
    /\ dirs \in {BaseListing \cup e : e \in SUBSET EarlierListing}

\* runs that vary the validation schedule
InitValidation ==
    /\ args \in ArgsOver(1..MaxEpochs, 1..MaxTrainSteps, 1..MaxAccum, {1}, 0..MaxStart,
                         {<<>>}, 1..MaxValSteps, BOOLEAN)
    /\ train_dataloader \in 1..MaxLen
    /\ dirs = BaseListing

\* no call of the tokenizer is made in a run of main()
TokenizerIdle ==
    /\ model = <<>>
    /\ pixel_values = <<>>
    /\ other_values = <<>>
    /\ tpc = "idle"
    /\ tokens = <<>>
    /\ other_tokens = <<>>
    /\ result = <<>>
    /\ decoded = <<>>

Init == (InitTraining \/ InitResume \/ InitValidation) /\ StartOfMain /\ TokenizerIdle

Next == ResumeFromCheckpoint \/ TrainIteration \/ Finish

Spec == Init /\ [][Next]_vars

(***************************************************************************)
(* CompressiveVQModelFSQ: tokenize, detokenize and decode                  *)
(* (vid_wm/verl/ivideogpt/ctx_tokenizer/compressive_vq_model.py).          *)
(* A batch of frames is a sequence in the row-major order of the tensor;   *)
(* a frame is one pixel value, a latent one number in half units, and the  *)
(* tokens of a frame one code index together with their count.             *)
(***************************************************************************)
MaxBatch == 2
MaxFrames == 3
MaxContext == 2
FsqHalfWidth == 1

Pixels == {0, 1}

\* the latents decode is called with, in half units
Latents == (0 - 2 * FsqHalfWidth - 1)..(2 * FsqHalfWidth + 1)

\* ctx_res and dyn_res of detokenize
CtxRes == <<32, 40>>

DynRes == <<8, 10>>

\* resolutions of the encoder output for inputs of several sizes
LatentResolutions == {CtxRes, <<40, 32>>, <<8, 8>>, <<16, 20>>}

PatchSizes == {4, 8}

RECURSIVE SumSeq(_)
SumSeq(q) == IF q = <<>> THEN 0 ELSE q[1] + SumSeq(Tail(q))

\* FSQ: the code of the grid nearest to z (halves go to the even code),
\* kept within the levels
Quantize(z) ==
    LET q == z \div 2
        nearest == IF z % 2 = 0 THEN q ELSE IF q % 2 = 0 THEN q ELSE q + 1
        code == IF nearest > FsqHalfWidth THEN FsqHalfWidth
                ELSE IF nearest < 0 - FsqHalfWidth THEN 0 - FsqHalfWidth
                ELSE nearest
    IN [codes |-> 2 * code, info |-> code + FsqHalfWidth]

\* FSQ.indices_to_codes
IndicesToCodes(index) == 2 * (index - FsqHalfWidth)

\* self.encoder followed by quant_conv, on a batch of frames: for each frame
\* the latent and the feature handed to the conditional path.  Nothing is
\* assumed about the network but that its output is determined by the batch
\* it is given, so each output may depend on every frame of the batch.
Encoder(frames) ==
    [k \in DOMAIN frames |->
        [h |-> 3 * frames[k] - 1 - (SumSeq(frames) % 2),
         feature |-> frames[k] + (SumSeq(frames) % 2)]]

\* self.cond_encoder followed by quant_linear, on a batch of frames and, for
\* each of them, the features of its context frames
CondEncoder(frames, cond_features) ==
    [m \in DOMAIN frames |->
        2 * frames[m] + SumSeq(cond_features[m]) - (SumSeq(frames) % 2)]

\* the first batch_size * context_length frames of the flattened video
ContextFramesOfFlatVideo(x, context_length) ==
    LET T == x.shape[2]
    IN [k \in 1..(x.shape[1] * context_length) |->
           x.frames[((k - 1) \div T) + 1][((k - 1) % T) + 1]]

\* pixel_values[:, :context_length].reshape(-1, C, H, W)
ContextFrames(x, context_length) ==
    [k \in 1..(x.shape[1] * context_length) |->
        x.frames[((k - 1) \div context_length) + 1][((k - 1) % context_length) + 1]]

\* pixel_values[:, context_length:].reshape(-1, C, H, W)
FutureFrames(x, context_length) ==
    LET future_length == x.shape[2] - context_length
    IN [k \in 1..(x.shape[1] * future_length) |->
           x.frames[((k - 1) \div future_length) + 1]
                   [context_length + ((k - 1) % future_length) + 1]]

\* cond_features after unsqueeze(1).repeat(1, future_length, ...).reshape(-1, ...):
\* for each future frame the features of the context frames of its video
RepeatFeatures(features, context_length, future_length, frames) ==
    IF context_length > 1
    THEN LET B == frames \div future_length
         IN [m \in 1..(B * future_length) |->
                [t \in 1..context_length |->
                    features[((m - 1) \div future_length) * context_length + t]]]
    ELSE [m \in 1..(Len(features) * future_length) |->
             <<features[((m - 1) \div future_length) + 1]>>]

\* tokenize(pixel_values, context_length) of a model with the given patch_size
Tokenize(x, context_length, patch_size) ==
    LET B == x.shape[1]
        T == x.shape[2]
        future_length == T - context_length
        context_frames == ContextFrames(x, context_length)
        future_frames == FutureFrames(x, context_length)
        encoded == Encoder(context_frames)
        cond_features == RepeatFeatures([k \in DOMAIN encoded |-> encoded[k].feature],
                                        context_length, future_length, Len(future_frames))
        d == CondEncoder(future_frames, cond_features)
        info == [k \in DOMAIN encoded |-> Quantize(encoded[k].h).info]
        info_d == [m \in DOMAIN d |-> Quantize(d[m]).info]
    IN [indices_c |->
            [shape |-> <<B, context_length, x.res[1] * x.res[2]>>,
             data |-> [b \in 1..B |-> [t \in 1..context_length |->
                          info[(b - 1) * context_length + t]]]],
        indices_d |->
            [shape |-> <<B, future_length,
                         (x.res[1] \div patch_size) * (x.res[2] \div patch_size)>>,
             data |-> [b \in 1..B |-> [j \in 1..future_length |->
                          info_d[(b - 1) * future_length + j]]]]]

\* the frames whose tokens fall into group k when frames of n tokens each
\* are laid out flat and cut into groups of g tokens (a reshape)
GroupSources(k, g, n) == (((k - 1) * g) \div n + 1)..((k * g - 1) \div n + 1)

Failed(e) == [ok |-> FALSE, error |-> e, video |-> <<>>]

\* detokenize(indices_c, indices_d, context_length) of a model with the given
\* patch_size: the B videos, each frame with the path that decoded it, the
\* frames of the token tensor it was decoded from and their codes
Detokenize(indices_c, indices_d, context_length, patch_size) ==
    LET future_length == indices_d.shape[2]
        B == indices_c.shape[1]
        n_c == indices_c.shape[3]
        n_d == indices_d.shape[3]
        flat_c == [k \in 1..(B * indices_c.shape[2]) |->
                      indices_c.data[((k - 1) \div indices_c.shape[2]) + 1]
                                    [((k - 1) % indices_c.shape[2]) + 1]]
        flat_d == [m \in 1..(B * future_length) |->
                      indices_d.data[((m - 1) \div future_length) + 1]
                                    [((m - 1) % future_length) + 1]]
        ctx_tokens == CtxRes[1] * CtxRes[2]
        dyn_tokens == DynRes[1] * DynRes[2]
        \* quant.reshape(B * context_length, ctx_res[0], ctx_res[1], D)
        quant_ok == Len(flat_c) * n_c = B * context_length * ctx_tokens
        \* quant_d.reshape(-1, dyn_res[0] * dyn_res[1], D)
        quant_d_ok == (Len(flat_d) * n_d) % dyn_tokens = 0
        N_d == (Len(flat_d) * n_d) \div dyn_tokens
        \* torch.reshape(quant2_d, [N, h // p, w // p, p, p, c])
        depatch_ok == dyn_tokens = (CtxRes[1] \div patch_size) * (CtxRes[2] \div patch_size)
        context_dec == [k \in 1..(B * context_length) |->
                           LET src == GroupSources(k, ctx_tokens, n_c)
                           IN [path |-> "context",
                               sources |-> src,
                               codes |-> {IndicesToCodes(flat_c[f]) : f \in src}]]
        dec == [m \in 1..N_d |->
                   LET src == GroupSources(m, dyn_tokens, n_d)
                   IN [path |-> "dynamics",
                       sources |-> src,
                       codes |-> {IndicesToCodes(flat_d[f]) : f \in src}]]
        \* B = quant2_d.shape[0] // future_length
        B2 == IF context_length > 1 THEN N_d \div future_length ELSE B
        \* f.reshape(B, context_length, ...) of the B * context_length features
        features_ok == context_length > 1 => B2 * context_length = B * context_length
        conditions == IF context_length > 1 THEN B2 * future_length
                      ELSE B * context_length * future_length
    IN IF ~quant_ok THEN Failed("RuntimeError")
       ELSE IF ~quant_d_ok THEN Failed("RuntimeError")
       ELSE IF ~depatch_ok THEN Failed("RuntimeError")
       ELSE IF ~features_ok THEN Failed("RuntimeError")
       ELSE IF N_d # conditions THEN Failed("RuntimeError")     \* cond_decoder
       ELSE IF N_d # B2 * future_length THEN Failed("RuntimeError")
       ELSE [ok |-> TRUE,
             error |-> "none",
             \* torch.cat([context_dec.reshape(B, context_length, ...),
             \*            dec.reshape(B, future_length, ...)], dim=1)
             video |-> [b \in 1..B2 |->
                          [t \in 1..(context_length + future_length) |->
                              IF t <= context_length
                              THEN context_dec[(b - 1) * context_length + t]
                              ELSE dec[(b - 1) * future_length + (t - context_length)]]]]

\* decode with commit losses that are the distance to the quantized code
DecodeWithCommitment(h, d) ==
    [quant |-> Quantize(h).codes,
     quant_d |-> Quantize(d).codes,
     commit_loss |-> (h - Quantize(h).codes) * (h - Quantize(h).codes),
     dyn_commit_loss |-> (d - Quantize(d).codes) * (d - Quantize(d).codes)]

\* decode(h, d): the quantized latents and the two commit losses it returns
Decode(h, d) ==
    [quant |-> Quantize(h).codes,
     quant_d |-> Quantize(d).codes,
     commit_loss |-> 0,
     dyn_commit_loss |-> 0]

(***************************************************************************)
(* Calls of the tokenizer: tokenize followed by detokenize, and decode.    *)
(***************************************************************************)
TokenizeCall ==
    /\ tpc = "tokenize"
    /\ IF model.context_arg # model.context_length       \* the assert of tokenize
       THEN /\ tpc' = "AssertionError"
            /\ UNCHANGED <<tokens, other_tokens>>
       ELSE /\ tpc' = "tokenized"
            /\ tokens' = Tokenize(pixel_values, model.context_arg, model.patch_size)
            /\ other_tokens' = Tokenize(other_values, model.context_arg, model.patch_size)
    /\ UNCHANGED <<model, pixel_values, other_values, result, decoded>>
    /\ UNCHANGED main_vars

DetokenizeCall ==
    /\ tpc = "tokenized"
    /\ result' = Detokenize(tokens.indices_c, tokens.indices_d, model.context_arg,
                            model.patch_size)
    /\ tpc' = IF result'.ok THEN "detokenized" ELSE result'.error
    /\ UNCHANGED <<model, pixel_values, other_values, tokens, other_tokens, decoded>>
    /\ UNCHANGED main_vars

DecodeCall ==
    /\ tpc = "decode"
    /\ \E h \in Latents, d \in Latents :
           decoded' = [h |-> h, d |-> d, out |-> Decode(h, d)]
    /\ tpc' = "decoded"
    /\ UNCHANGED <<model, pixel_values, other_values, tokens, other_tokens, result>>
    /\ UNCHANGED main_vars

\* batches of B videos of T frames whose encoder output has resolution res
Videos(B, T, res, pixels) ==
    {[shape |-> <<B, T>>, res |-> res, frames |-> f] :
        f \in [1..B -> [1..T -> pixels]]}

\* the batches that differ from x in one frame after the context frames
Others(x, context_length) ==
    {[x EXCEPT !.frames[q[1]][q[2]] = q[3]] :
        q \in {q \in (1..x.shape[1]) \X ((context_length + 1)..x.shape[2]) \X Pixels :
                  q[3] # x.frames[q[1]][q[2]]}}

MainIdle ==
    /\ args = <<>>
    /\ train_dataloader = 0
    /\ pc = "idle"
    /\ error = "none"
    /\ global_step = 0
    /\ epoch = 0
    /\ i = 0
    /\ acc_step = 0
    /\ sync_gradients = TRUE
    /\ gen_updates = 0
    /\ disc_updates = 0
    /\ dirs = {}
    /\ loaded = <<>>
    /\ printed = "none"
    /\ first_step = 0
    /\ hist = <<>>

NothingReturned ==
    /\ tokens = <<>>
    /\ other_tokens = <<>>
    /\ result = <<>>
    /\ decoded = <<>>

\* calls that vary the shapes: batch size, lengths, resolution, patch size
InitShapes ==
    /\ model \in [context_length : 1..MaxContext, context_arg : 1..MaxContext,
                  patch_size : PatchSizes]
    /\ \E B \in 1..MaxBatch, T \in (model.context_arg + 1)..MaxFrames,
          res \in LatentResolutions :
           pixel_values \in Videos(B, T, res, {0})
    /\ other_values \in Others(pixel_values, model.context_arg)
    /\ tpc = "tokenize"

\* calls that vary the frames, at the resolution detokenize is written for
InitContents ==
    /\ model \in {m \in [context_length : 1..MaxContext, context_arg : 1..MaxContext,
                         patch_size : {4}] : m.context_arg = m.context_length}
    /\ \E B \in 1..MaxBatch, T \in (model.context_arg + 1)..MaxFrames :
           pixel_values \in Videos(B, T, CtxRes, Pixels)
    /\ other_values \in Others(pixel_values, model.context_arg)
    /\ tpc = "tokenize"

\* calls of decode
InitDecode ==
    /\ model = [context_length |-> 1, context_arg |-> 1, patch_size |-> 4]
    /\ pixel_values = <<>>
    /\ other_values = <<>>
    /\ tpc = "decode"

InitTokenizer == MainIdle /\ (InitShapes \/ InitContents \/ InitDecode) /\ NothingReturned

NextTokenizer == TokenizeCall \/ DetokenizeCall \/ DecodeCall

SpecTokenizer == InitTokenizer /\ [][NextTokenizer]_vars

(***************************************************************************)
(* Properties                                                              *)
(***************************************************************************)
Iterations == 1..Len(hist)

InLoop == pc \in {"train", "done"}

IsWrittenPath(p) == p \in WrittenPaths(0..MaxSavedStep)

\* C1: once global_step has reached max_train_steps no optimizer update is
\* performed, and global_step does not exceed max_train_steps when the
\* training loop has finished (for runs entering the loop below max_train_steps).
C1_StopsAtMaxTrainSteps ==
    (InLoop /\ first_step < args.max_train_steps) =>
        /\ \A k \in Iterations :
               (hist[k].gen_applied \/ hist[k].disc_applied)
                   => hist[k].before < args.max_train_steps
        /\ pc = "done" => global_step <= args.max_train_steps

\* C2: the training loop ends only when global_step has reached
\* max_train_steps, whatever num_train_epochs is.
C2_RunsUntilMaxTrainSteps ==
    pc = "done" => global_step >= args.max_train_steps

\* C3: save_checkpoint is called at every value global_step takes in the
\* training loop that is a positive multiple of checkpointing_steps.
C3_CheckpointEveryCheckpointingSteps ==
    \A k \in Iterations :
        (/\ hist[k].after # hist[k].before
         /\ hist[k].after > 0
         /\ hist[k].after % args.checkpointing_steps = 0) => hist[k].saved

\* C4: resuming from the path of a directory written by
\* save_checkpoint(..., s, 'tokenizer') enters the training loop with
\* global_step = s, whatever start_global_step is.
C4_ResumeRoundTrip ==
    \A d \in EarlierRunDirs, s \in 0..MaxSavedStep :
        (/\ args.resume_from_checkpoint = PathJoin(d, SaveName(s, TOKENIZER))
         /\ pc # "resume")
        => /\ pc # "raised"
           /\ first_step = s
           /\ hist = <<>> => global_step = s
           /\ hist # <<>> => hist[1].before = s

C4_Witness ==
    /\ IsWrittenPath(args.resume_from_checkpoint)
    /\ pc = "train"
    /\ hist = <<>>
    /\ global_step >= 10
    /\ global_step # args.start_global_step

\* C5: with "latest", when the checkpoint directories of output_dir are those
\* save_checkpoint wrote, the one of greatest global step is loaded and the
\* training loop is entered at that step.
C5_LatestSelectsGreatestStep ==
    LET listed == {d \in dirs : StartsWith(d, CHECKPOINT)}
        steps == {s \in 0..MaxSavedStep : SaveName(s, TOKENIZER) \in listed}
        top == CHOOSE s \in steps : \A t \in steps : t <= s
    IN (/\ args.resume_from_checkpoint = LATEST
        /\ pc # "resume"
        /\ hist = <<>>
        /\ steps # {}
        /\ \A d \in listed : \E s \in steps : d = SaveName(s, TOKENIZER))
       => /\ pc = "train"
          /\ loaded = PathJoin(args.output_dir, SaveName(top, TOKENIZER))
          /\ global_step = top

\* C6: with "latest" and no checkpoint directory in output_dir, the run says
\* that the checkpoint does not exist and enters the training loop at
\* start_global_step, raising nothing and loading nothing.
C6_LatestWithoutCheckpointStartsFresh ==
    (/\ args.resume_from_checkpoint = LATEST
     /\ pc # "resume"
     /\ hist = <<>>
     /\ \A d \in dirs : ~StartsWith(d, CHECKPOINT))
    => /\ pc = "train"
       /\ error = "none"
       /\ printed = "does_not_exist"
       /\ loaded = <<>>
       /\ global_step = args.start_global_step

\* C7: gradients are synchronised on exactly one of every
\* gradient_accumulation_steps consecutive iterations, and global_step grows
\* by 1 on the iterations that synchronise and by 0 on the others.
C7_OneSyncPerAccumulationWindow ==
    LET G == args.gradient_accumulation_steps
    IN \A k \in Iterations :
          /\ hist[k].after - hist[k].before = (IF hist[k].sync THEN 1 ELSE 0)
          /\ (k + G - 1 <= Len(hist))
                 => Cardinality({j \in k..(k + G - 1) : hist[j].sync}) = 1

C7_Witness ==
    /\ args.gradient_accumulation_steps >= 2
    /\ epoch >= 1
    /\ train_dataloader % args.gradient_accumulation_steps # 0
    /\ Len(hist) >= 2 * args.gradient_accumulation_steps
    /\ hist[Len(hist)].sync

\* C8: global_step minus its value at the start of the loop equals the number
\* of parameter updates applied so far.
C8_GlobalStepCountsUpdates ==
    InLoop => global_step - first_step = gen_updates + disc_updates

\* C9: on an iteration with global_step < disc_start, a discriminator turn
\* runs no tokenizer forward pass, no discriminator pass and no
\* discr_optimizer step, a generator turn has no adversarial term, and the
\* discriminator's parameters are unchanged.
C9_DiscriminatorSkippedBeforeStart ==
    \A k \in Iterations :
        hist[k].before < args.disc_start =>
            /\ ~hist[k].generator_step =>
                   /\ ~hist[k].model_forward
                   /\ ~hist[k].disc_forward
                   /\ ~hist[k].disc_applied
            /\ hist[k].generator_step => ~hist[k].adversarial
            /\ hist[k].disc_after = hist[k].disc_before

C9_Witness ==
    \E k \in Iterations :
        /\ hist[k].before < args.disc_start
        /\ ~hist[k].generator_step
        /\ hist[k].sync
        /\ \E j \in Iterations : hist[j].generator_step /\ hist[j].gen_applied

\* C10 as stated: a run with the default distance between disc_start and
\* max_train_steps that has reached max_train_steps has made a generator
\* update with the adversarial term and a discriminator update.
C10_DefaultRunTrainsAdversarially ==
    (/\ pc = "done"
     /\ args.disc_start = args.max_train_steps + DiscStartExcess
     /\ global_step >= args.max_train_steps)
    => /\ \E k \in Iterations : hist[k].gen_applied /\ hist[k].adversarial
       /\ \E k \in Iterations : hist[k].disc_applied

\* C10 amended: the adversarial term and the discriminator update occur only
\* from global_step >= disc_start on; with disc_start above max_train_steps
\* (the defaults) no discriminator update is ever performed, and in a single
\* epoch entered below max_train_steps no generator loss has the adversarial term.
C10_AdversarialOnlyFromDiscStart ==
    /\ \A k \in Iterations :
           (hist[k].adversarial \/ hist[k].disc_applied)
               => hist[k].before >= args.disc_start
    /\ args.disc_start > args.max_train_steps => disc_updates = 0
    /\ (/\ args.disc_start > args.max_train_steps
        /\ args.num_train_epochs = 1
        /\ first_step < args.max_train_steps)
       => \A k \in Iterations : ~hist[k].adversarial

C10_Witness ==
    /\ pc = "done"
    /\ args.disc_start = args.max_train_steps + DiscStartExcess
    /\ args.num_train_epochs = 1
    /\ first_step < args.max_train_steps
    /\ global_step >= args.max_train_steps
    /\ \E k \in Iterations : hist[k].gen_applied
    /\ \E k \in Iterations : ~hist[k].generator_step /\ hist[k].sync

\* C11: evaluate is called at every value s that global_step takes in the
\* training loop with s mod validation_steps = 1, except s = 1 when
\* skip_first_val is set.
C11_ValidationEveryValidationSteps ==
    \A k \in Iterations :
        (/\ hist[k].after # hist[k].before
         /\ hist[k].after % args.validation_steps = 1
         /\ ~(hist[k].after = 1 /\ args.skip_first_val)) => hist[k].evaluated

\* C12 as stated: the commit losses returned by decode are non-zero whenever
\* the encoder output differs from its quantized code.
C12_CommitLossMeasuresDistance ==
    tpc = "decoded" =>
        /\ decoded.h # decoded.out.quant => decoded.out.commit_loss # 0
        /\ decoded.d # decoded.out.quant_d => decoded.out.dyn_commit_loss # 0

\* C12 amended: commit_loss and dyn_commit_loss returned by decode are 0
\* whatever h and d are, also when they differ from their quantized codes.
C12_CommitLossIsZero ==
    tpc = "decoded" =>
        /\ decoded.out.commit_loss = 0
        /\ decoded.out.dyn_commit_loss = 0

C12_Witness ==
    /\ tpc = "decoded"
    /\ decoded.h # decoded.out.quant
    /\ decoded.d # decoded.out.quant_d

\* C13: detokenize of what tokenize returned gives B videos of T frames, the
\* first context_length decoded by the context path from the context tokens
\* of the same frame, the others by the dynamics path from the dynamics
\* tokens of the same frame.
C13_DetokenizeReturnsAllFrames ==
    tpc \in {"detokenized", "RuntimeError"} =>
        LET B == pixel_values.shape[1]
            T == pixel_values.shape[2]
            c == model.context_arg
        IN /\ result.ok
           /\ Len(result.video) = B
           /\ \A b \in 1..B :
                 /\ Len(result.video[b]) = T
                 /\ \A t \in 1..T :
                       IF t <= c
                       THEN /\ result.video[b][t].path = "context"
                            /\ result.video[b][t].sources = {(b - 1) * c + t}
                            /\ result.video[b][t].codes =
                                   {IndicesToCodes(tokens.indices_c.data[b][t])}
                       ELSE /\ result.video[b][t].path = "dynamics"
                            /\ result.video[b][t].sources = {(b - 1) * (T - c) + (t - c)}
                            /\ result.video[b][t].codes =
                                   {IndicesToCodes(tokens.indices_d.data[b][t - c])}

\* C14: two batches that agree on their context frames get the same context
\* tokens indices_c from tokenize.
C14_ContextTokensDependOnContextOnly ==
    (/\ tpc \in {"tokenized", "detokenized", "RuntimeError"}
     /\ \A b \in 1..pixel_values.shape[1], t \in 1..model.context_arg :
            pixel_values.frames[b][t] = other_values.frames[b][t])
    => tokens.indices_c = other_tokens.indices_c

C14_Witness ==
    /\ tpc = "tokenized"
    /\ pixel_values.shape[1] >= 2
    /\ pixel_values # other_values
    /\ tokens.indices_d # other_tokens.indices_d
    /\ tokens.indices_c = other_tokens.indices_c
    /\ \E b \in 1..pixel_values.shape[1] :
           tokens.indices_c.data[b] # tokens.indices_c.data[1]

====
